---- MODULE Spec2Model ----
(***************************************************************************)
(* MovingMedian<T, N> of src/src/lib.rs: a fixed-size ring buffer of the   *)
(* last N measurements and the median of the live ones.                    *)
(*                                                                         *)
(* The element type T is generic (Copy + PartialOrd + Add + Div +          *)
(* From<u8> + Default).  The model instantiates it with u8, the smallest   *)
(* type the bounds admit: its arithmetic is exact, so every value the code *)
(* computes is computed here bit for bit.  An overflowing `a + b` panics   *)
(* in a build with overflow checks (debug) and wraps modulo 2^8 in a build *)
(* without (release); the build is chosen in Init.                         *)
(***************************************************************************)
EXTENDS Integers, Naturals, Sequences, FiniteSets, TLC

\* Largest capacity N the model instantiates (N ranges over 0..MaxN).
MaxN == 3
\* Most add_value calls between two clears.
MaxAdds == 4

\* Width of the element type T = u8.
TBits == 8
TMod == 2 ^ TBits

\* The measurements fed to add_value: both ends of u8's range, neighbours,
\* and values whose sums exceed the range.
Values == {0, 1, 100, 200, 255}

VARIABLES
    N,                \* const generic N: the capacity
    overflow_checks,  \* build profile: TRUE panics on integer overflow
    buffer,           \* self.buffer: [T; N], indexed 0..N-1
    index,            \* self.index
    count,            \* self.count
    last,             \* the last call: "new", "add_value", "median", "clear"
    ret,              \* what the last call returned (NoRet: nothing)
    panic,            \* how the last call failed ("none": it returned)
    pre,              \* self before the last call
    hist,             \* the values added since new() or the last clear()
    pc,               \* where a median() followed step by step stands
    sorted_buffer,    \* median's local copy of the buffer
    loop_i,           \* median's outer loop variable i
    loop_j,           \* median's inner loop variable j
    loop_end          \* the end of the inner range, count - i - 1

sortVars == <<pc, sorted_buffer, loop_i, loop_j, loop_end>>

vars == <<N, overflow_checks, buffer, index, count, last, ret, panic, pre, hist,
          pc, sorted_buffer, loop_i, loop_j, loop_end>>

NoRet == -1
NoPanic == "none"

Self == [buffer |-> buffer, index |-> index, count |-> count]

(***************************************************************************)
(* The element type                                                        *)
(***************************************************************************)
Ok(v) == [val |-> v, panic |-> NoPanic]
Fail(kind) == [val |-> NoRet, panic |-> kind]

\* T::default()
Default == 0

\* T::from(x) for a u8 literal x
FromU8(x) == x

\* a + b in T
TAdd(a, b) ==
    IF a + b < TMod THEN Ok(a + b)
    ELSE IF overflow_checks THEN Fail("add_overflow")
    ELSE Ok((a + b) % TMod)

\* a / b in T
TDiv(a, b) == IF b = 0 THEN Fail("div_by_zero") ELSE Ok(a \div b)

\* a - b in usize: an underflow panics in a build with overflow checks and
\* wraps in one without.  usize is at least 16 bits wide, and on every target
\* the wrapped difference is above any capacity, which is all that is read
\* of it.
USub(a, b) ==
    IF a >= b THEN Ok(a - b)
    ELSE IF overflow_checks THEN Fail("sub_overflow")
    ELSE Ok(a - b + 65536)

(***************************************************************************)
(* new                                                                     *)
(***************************************************************************)
new(n) == [buffer |-> [i \in 0 .. n - 1 |-> Default], index |-> 0, count |-> 0]

(***************************************************************************)
(* add_value                                                               *)
(***************************************************************************)
add_value_WriteAfterAdvance(self, value) ==
    IF N = 0 THEN [self |-> self, panic |-> "rem_by_zero"]
    ELSE LET i2 == (self.index + 1) % N
             s1 == [self EXCEPT !.buffer[i2] = value, !.index = i2]
         IN  [self  |-> IF s1.count < N THEN [s1 EXCEPT !.count = @ + 1] ELSE s1,
              panic |-> NoPanic]

add_value_CountUnbounded(self, value) ==
    IF self.index \notin DOMAIN self.buffer
    THEN [self |-> self, panic |-> "index_out_of_bounds"]
    ELSE LET s1 == [self EXCEPT !.buffer[self.index] = value]
         IN  IF N = 0 THEN [self |-> s1, panic |-> "rem_by_zero"]
             ELSE [self  |-> [s1 EXCEPT !.index = (self.index + 1) % N,
                                        !.count = @ + 1],
                   panic |-> NoPanic]

add_value_NoWrap(self, value) ==
    IF self.index \notin DOMAIN self.buffer
    THEN [self |-> self, panic |-> "index_out_of_bounds"]
    ELSE LET s1 == [self EXCEPT !.buffer[self.index] = value, !.index = @ + 1]
         IN  [self  |-> IF s1.count < N THEN [s1 EXCEPT !.count = @ + 1] ELSE s1,
              panic |-> NoPanic]

add_value(self, value) ==
    IF self.index \notin DOMAIN self.buffer
    THEN [self |-> self, panic |-> "index_out_of_bounds"]
    ELSE LET s1 == [self EXCEPT !.buffer[self.index] = value]
         IN  IF N = 0 THEN [self |-> s1, panic |-> "rem_by_zero"]
             ELSE LET s2 == [s1 EXCEPT !.index = (self.index + 1) % N]
                  IN  [self  |-> IF s2.count < N
                                 THEN [s2 EXCEPT !.count = @ + 1]
                                 ELSE s2,
                       panic |-> NoPanic]

(***************************************************************************)
(* median                                                                  *)
(***************************************************************************)
\* sorted_buffer.swap(j, j + 1)
Swap(sb, a, b) == [sb EXCEPT ![a] = sb[b], ![b] = sb[a]]

\* for j in j..hi { if sorted_buffer[j] > sorted_buffer[j + 1] { swap } }
RECURSIVE SortInner(_, _, _)
SortInner(st, j, hi) ==
    IF st.panic # NoPanic \/ j >= hi THEN st
    ELSE IF j \notin DOMAIN st.buf \/ (j + 1) \notin DOMAIN st.buf
         THEN [st EXCEPT !.panic = "index_out_of_bounds"]
         ELSE SortInner(
                  [st EXCEPT !.buf = IF st.buf[j] > st.buf[j + 1]
                                     THEN Swap(st.buf, j, j + 1)
                                     ELSE st.buf],
                  j + 1, hi)

\* for i in i..cnt { for j in 0..cnt - i - 1 { ... } }
RECURSIVE SortOuter(_, _, _)
SortOuter(st, i, cnt) ==
    IF st.panic # NoPanic \/ i >= cnt THEN st
    ELSE LET d1 == USub(cnt, i)
             d2 == IF d1.panic = NoPanic THEN USub(d1.val, 1) ELSE d1
         IN  IF d2.panic # NoPanic THEN [st EXCEPT !.panic = d2.panic]
             ELSE SortOuter(SortInner(st, 0, d2.val), i + 1, cnt)

\* The bubble sort of the first cnt elements of a copy of buf.
BubbleSort(buf, cnt) == SortOuter([buf |-> buf, panic |-> NoPanic], 0, cnt)

\* sorted_buffer[i]
At(sb, i) == IF i \in DOMAIN sb THEN Ok(sb[i]) ELSE Fail("index_out_of_bounds")

\* (sorted_buffer[count / 2 - 1] + sorted_buffer[count / 2]) / T::from(2)
EvenMiddle(sb, cnt) ==
    LET lo == USub(cnt \div 2, 1)
        a  == IF lo.panic = NoPanic THEN At(sb, lo.val) ELSE lo
        b  == IF a.panic = NoPanic THEN At(sb, cnt \div 2) ELSE a
        s  == IF b.panic = NoPanic THEN TAdd(a.val, b.val) ELSE b
    IN  IF s.panic = NoPanic THEN TDiv(s.val, FromU8(2)) ELSE s

OddMiddle_OneBased(sb, cnt) == At(sb, cnt \div 2 + 1)

\* sorted_buffer[count / 2]
OddMiddle(sb, cnt) == At(sb, cnt \div 2)

\* The middle of the sorted copy.
Middle(st, cnt) ==
    IF st.panic # NoPanic THEN Fail(st.panic)
    ELSE IF cnt % 2 = 0 THEN EvenMiddle(st.buf, cnt)
    ELSE OddMiddle(st.buf, cnt)

median_NoEmptyCheck(self) ==
    LET m == Middle(BubbleSort(self.buffer, self.count), self.count)
    IN  [self |-> self, val |-> m.val, panic |-> m.panic]

median_SortInPlace(self) ==
    IF self.count = 0 THEN [self |-> self, val |-> FromU8(0), panic |-> NoPanic]
    ELSE LET st == BubbleSort(self.buffer, self.count)
             m  == Middle(st, self.count)
         IN  [self |-> [self EXCEPT !.buffer = st.buf], val |-> m.val, panic |-> m.panic]

\* median(&self): the sort runs on the copy `sorted_buffer`, self is left as is.
median(self) ==
    IF self.count = 0 THEN [self |-> self, val |-> FromU8(0), panic |-> NoPanic]
    ELSE LET m == Middle(BubbleSort(self.buffer, self.count), self.count)
         IN  [self |-> self, val |-> m.val, panic |-> m.panic]

(***************************************************************************)
(* clear                                                                   *)
(***************************************************************************)
clear_KeepBuffer(self) == [self EXCEPT !.count = 0, !.index = 0]

clear_KeepIndex(self) ==
    [self EXCEPT !.buffer = [i \in 0 .. N - 1 |-> Default], !.count = 0]

clear(self) ==
    [self EXCEPT !.buffer = [i \in 0 .. N - 1 |-> Default], !.count = 0, !.index = 0]

(***************************************************************************)
(* The calls                                                               *)
(***************************************************************************)
\* No median() is being followed step by step.
SortIdle ==
    /\ pc = "idle"
    /\ sorted_buffer = << >>
    /\ loop_i = 0
    /\ loop_j = 0
    /\ loop_end = 0

Init ==
    /\ N \in 0 .. MaxN
    /\ overflow_checks \in BOOLEAN
    /\ buffer = new(N).buffer
    /\ index = new(N).index
    /\ count = new(N).count
    /\ last = "new"
    /\ ret = NoRet
    /\ panic = NoPanic
    /\ pre = new(N)
    /\ hist = << >>
    /\ SortIdle

AddValue ==
    \E v \in Values :
        /\ Len(hist) < MaxAdds
        /\ LET r == add_value(Self, v)
           IN  /\ buffer' = r.self.buffer
               /\ index' = r.self.index
               /\ count' = r.self.count
               /\ panic' = r.panic
               /\ hist' = IF r.panic = NoPanic THEN Append(hist, v) ELSE hist
        /\ last' = "add_value"
        /\ ret' = NoRet
        /\ pre' = Self
        /\ UNCHANGED <<N, overflow_checks>>
        /\ UNCHANGED sortVars

Median ==
    /\ LET r == median(Self)
       IN  /\ buffer' = r.self.buffer
           /\ index' = r.self.index
           /\ count' = r.self.count
           /\ ret' = r.val
           /\ panic' = r.panic
    /\ last' = "median"
    /\ pre' = Self
    /\ UNCHANGED <<N, overflow_checks, hist>>
    /\ UNCHANGED sortVars

Clear ==
    /\ LET s == clear(Self)
       IN  /\ buffer' = s.buffer
           /\ index' = s.index
           /\ count' = s.count
    /\ last' = "clear"
    /\ ret' = NoRet
    /\ panic' = NoPanic
    /\ pre' = Self
    /\ hist' = << >>
    /\ UNCHANGED <<N, overflow_checks>>
    /\ UNCHANGED sortVars

Next == AddValue \/ Median \/ Clear

Spec == Init /\ [][Next]_vars

(***************************************************************************)
(* Reference notions the properties are stated with                        *)
(***************************************************************************)
\* The element of rank r (from 0) of seq in ascending order.
KthSmallest(seq, r) ==
    CHOOSE x \in {seq[i] : i \in DOMAIN seq} :
        /\ Cardinality({i \in DOMAIN seq : seq[i] < x}) <= r
        /\ Cardinality({i \in DOMAIN seq : seq[i] <= x}) > r

\* The median of a non-empty sequence of integers, in unbounded arithmetic:
\* its middle element, or the mean of its two middle elements rounded down.
TrueMedian(seq) ==
    IF Len(seq) % 2 = 1 THEN KthSmallest(seq, Len(seq) \div 2)
    ELSE (KthSmallest(seq, Len(seq) \div 2 - 1) + KthSmallest(seq, Len(seq) \div 2)) \div 2

\* The n most recent values of h (all of them when there are at most n).
Window(h, n) == IF Len(h) > n THEN SubSeq(h, Len(h) - n + 1, Len(h)) ELSE h

\* The two middle elements of the live samples add up within T's range.
MiddleSumInRange(h) ==
    KthSmallest(h, Len(h) \div 2 - 1) + KthSmallest(h, Len(h) \div 2) < TMod

\* self after add_value of each value of seq in turn.
RECURSIVE Replay(_, _)
Replay(self, seq) ==
    IF seq = << >> THEN self
    ELSE Replay(add_value(self, Head(seq)).self, Tail(seq))

\* Every order of the values of h.
Orders(h) == {[i \in 1 .. Len(h) |-> h[p[i]]] : p \in Permutations(1 .. Len(h))}

\* What median() gives on a buffer filled with seq.
MedianOf(seq) == LET m == median(Replay(new(N), seq)) IN [val |-> m.val, panic |-> m.panic]

(***************************************************************************)
(* C1..C10                                                                 *)
(***************************************************************************)
\* C1 (sliding window): after k > N adds to an empty buffer of capacity
\* N >= 1, median() returns the true median of the N most recent values.
C1_SlidingWindow ==
    (N >= 1 /\ last = "median" /\ Len(hist) > N)
        => (panic = NoPanic /\ ret = TrueMedian(Window(hist, N)))

\* C1, as far as the code goes: the same, whenever N is odd or the two middle
\* values of the window add up within T's range.
C1_SlidingWindowInRange ==
    (N >= 1 /\ last = "median" /\ Len(hist) > N
       /\ (N % 2 = 1 \/ MiddleSumInRange(Window(hist, N))))
        => (panic = NoPanic /\ ret = TrueMedian(Window(hist, N)))

\* C2 (partial fill): after 1 <= k <= N adds to an empty buffer, median()
\* returns the true median of exactly those k values.
C2_PartialFill ==
    (N >= 1 /\ last = "median" /\ Len(hist) >= 1 /\ Len(hist) <= N)
        => (panic = NoPanic /\ ret = TrueMedian(hist))

\* C2, as far as the code goes: the same, whenever k is odd or the two middle
\* values add up within T's range.
C2_PartialFillInRange ==
    (N >= 1 /\ last = "median" /\ Len(hist) >= 1 /\ Len(hist) <= N
       /\ (Len(hist) % 2 = 1 \/ MiddleSumInRange(hist)))
        => (panic = NoPanic /\ ret = TrueMedian(hist))

\* C3 (cold start): with count = 0 and N >= 1, median() returns zero and
\* does not fail.
C3_ColdStart ==
    (N >= 1 /\ last = "median" /\ pre.count = 0)
        => (ret = 0 /\ panic = NoPanic)

C3_Witness ==
    N >= 1 /\ last = "median" /\ pre.count = 0 /\ count = 0 /\ ret = 0

\* C4 (clear equals fresh): clear() leaves exactly the state new() builds;
\* median() on it returns zero; and the state is always the one the adds since
\* new() or the last clear() build on a new buffer, so a cleared buffer answers
\* every later call as a new one does.
C4_ClearEqualsFresh ==
    /\ last = "clear" => (Self = new(N) /\ panic = NoPanic)
    /\ (last = "median" /\ hist = << >>) => (ret = 0 /\ panic = NoPanic)
    /\ Self = Replay(new(N), hist)

C4_Witness ==
    /\ last = "clear"
    /\ N = 3
    /\ pre.count = N
    /\ pre.index = 1
    /\ \A i \in DOMAIN pre.buffer : pre.buffer[i] # Default

\* C5 (median is a pure query): median() leaves buffer, index and count as
\* they were; a second median() right after returns the same; and an
\* add_value after it writes the slot it would have written without it.
C5_MedianIsPure ==
    /\ [](last = "median" => Self = pre)
    /\ [][(last = "median" /\ last' = "median") => (ret' = ret /\ panic' = panic)]_vars
    /\ [][(last = "median" /\ last' = "add_value" /\ panic' = NoPanic)
            => buffer' = [pre.buffer EXCEPT ![pre.index] = hist'[Len(hist')]]]_vars

C5_Witness ==
    /\ last = "median"
    /\ count = 3
    /\ buffer[0] > buffer[1]
    /\ buffer[1] > buffer[2]
    /\ Self = pre

\* C6 (totality for N >= 1): no call fails.
C6_Totality == N >= 1 => panic = NoPanic

\* C6, as far as the code goes: for N >= 1 every array index is within the
\* buffer, no usize subtraction underflows and no divisor is zero.
C6_IndexSafety ==
    N >= 1 => panic \notin {"index_out_of_bounds", "sub_overflow", "rem_by_zero", "div_by_zero"}

\* C7 (order invariance): for N >= 2, two values a, b added to an empty
\* buffer give median() = (a + b) / 2 in either order; and every order of the
\* same k <= N values gives the same median().
C7_OrderInvariance ==
    /\ (N >= 2 /\ last = "median" /\ Len(hist) = 2)
         => /\ ret = (hist[1] + hist[2]) \div 2 /\ panic = NoPanic
            /\ MedianOf(<<hist[2], hist[1]>>) = Ok((hist[1] + hist[2]) \div 2)
    /\ (N >= 1 /\ last = "median" /\ Len(hist) <= N)
         => \A o \in Orders(hist) : MedianOf(o) = [val |-> ret, panic |-> panic]

\* C7, as far as the code goes: every order of the same k <= N values gives
\* the same outcome of median().
C7_SameInEveryOrder ==
    (N >= 1 /\ last = "median" /\ Len(hist) <= N)
        => \A o \in Orders(hist) : MedianOf(o) = [val |-> ret, panic |-> panic]

\* C8 (even-count mean): with count even and >= 2, median() returns the
\* arithmetic mean (rounded down) of the two middle elements of the sorted
\* live samples.
C8_EvenCountMean ==
    (N >= 1 /\ last = "median" /\ pre.count >= 2 /\ pre.count % 2 = 0)
        => LET live == Window(hist, N)
               a == KthSmallest(live, pre.count \div 2 - 1)
               b == KthSmallest(live, pre.count \div 2)
           IN  panic = NoPanic /\ ret = (a + b) \div 2

\* C9 (zero capacity), as claimed: with N = 0, median() returns zero and
\* add_value fails with a remainder by zero in (index + 1) % N.
C9_ZeroCapacityRemByZero ==
    N = 0 =>
        /\ last = "median" => (ret = 0 /\ panic = NoPanic)
        /\ last = "add_value" => panic = "rem_by_zero"

\* C9 (zero capacity), amended: with N = 0, median() returns zero and
\* add_value fails on the write buffer[index], out of the bounds of the empty
\* buffer, before (index + 1) % N is evaluated; self is left as new() built it.
C9_ZeroCapacity ==
    N = 0 =>
        /\ last = "median" => (ret = 0 /\ panic = NoPanic)
        /\ last = "add_value" => panic = "index_out_of_bounds"
        /\ Self = new(0)

C9_Witness == N = 0 /\ last = "add_value" /\ panic = "index_out_of_bounds"

\* C10 (single sample): for N >= 1, after one add_value(v) on an empty
\* buffer, median() returns v.
C10_SingleSample ==
    (N >= 1 /\ last = "median" /\ Len(hist) = 1)
        => (ret = hist[1] /\ panic = NoPanic)

C10_Witness ==
    /\ N = 1
    /\ last = "median"
    /\ hist = <<255>>
    /\ index = 0
    /\ count = 1
    /\ ret = 255
(***************************************************************************)
(* C11..C19                                                                *)
(***************************************************************************)
\* The smaller of two numbers.
Min(a, b) == IF a <= b THEN a ELSE b

\* C11 (count bound and monotonicity): 0 <= count <= N always; add_value
\* adds 1 to count while count < N and leaves it at N afterwards; only clear()
\* lowers count, to 0; after k adds since new() or clear(), count = min(k, N).
C11_CountBound ==
    /\ 0 <= count /\ count <= N
    /\ (last = "add_value" /\ panic = NoPanic)
         => count = IF pre.count < N THEN pre.count + 1 ELSE N
    /\ last # "clear" => count >= pre.count
    /\ last = "clear" => count = 0
    /\ count = Min(Len(hist), N)

C11_Witness ==
    /\ last = "add_value"
    /\ N = 2
    /\ pre.count = N
    /\ count = N
    /\ Len(hist) = 4

\* C12 (write index range): for N >= 1, 0 <= index < N always; add_value
\* sets index to (old index + 1) mod N; after k adds since new() or clear(),
\* index = k mod N.
C12_IndexRange ==
    N >= 1 =>
        /\ 0 <= index /\ index < N
        /\ last = "add_value" => (panic = NoPanic /\ index = (pre.index + 1) % N)
        /\ index = Len(hist) % N

C12_Witness ==
    /\ last = "add_value"
    /\ N = 3
    /\ pre.index = 2
    /\ index = 0
    /\ Len(hist) = 3
\* The slot written j adds ago (j = 1: the most recent), in ring order
\* ending at (index - 1) mod N.
SlotOf(j) == (index - j + N) % N

\* The count most recently written slots.
LiveSlots == {SlotOf(j) : j \in 1 .. count}

\* C13 (live region is the sorted prefix): for N >= 1, the slots median()
\* reads, 0 .. count-1, are exactly the count most recently written slots in
\* ring order ending at (index - 1) mod N, each holding the value of its add;
\* count < N implies index = count, and count = N implies every slot is live.
C13_LiveRegion ==
    N >= 1 =>
        /\ 0 .. count - 1 = LiveSlots
        /\ \A j \in 1 .. count : buffer[SlotOf(j)] = hist[Len(hist) - j + 1]
        /\ count < N => index = count
        /\ count = N => LiveSlots = DOMAIN buffer

C13_Witness ==
    /\ N = 3
    /\ count = 3
    /\ index = 1
    /\ hist = <<1, 100, 200, 255>>
    /\ buffer = [i \in 0 .. 2 |-> IF i = 0 THEN 255 ELSE IF i = 1 THEN 100 ELSE 200]

\* How many slots of buf hold x.
Occurrences(buf, x) == Cardinality({i \in DOMAIN buf : buf[i] = x})

\* C14 (FIFO eviction): whenever count = N >= 1, the slot at index holds the
\* oldest live sample, the one added N adds ago; an add_value on a full buffer
\* overwrites exactly that slot, so the live samples afterwards are the former
\* ones less the oldest plus the new value.
C14_FifoEviction ==
    /\ (N >= 1 /\ count = N) => buffer[index] = hist[Len(hist) - N + 1]
    /\ (N >= 1 /\ last = "add_value" /\ pre.count = N) =>
          LET oldest == hist[Len(hist) - N]
              added  == hist[Len(hist)]
          IN  /\ panic = NoPanic
              /\ pre.buffer[pre.index] = oldest
              /\ buffer = [pre.buffer EXCEPT ![pre.index] = added]
              /\ \A x \in Values :
                    Occurrences(buffer, x) =
                        Occurrences(pre.buffer, x)
                          - (IF x = oldest THEN 1 ELSE 0)
                          + (IF x = added THEN 1 ELSE 0)

C14_Witness ==
    /\ N = 3
    /\ last = "add_value"
    /\ pre.count = 3
    /\ pre.index = 0
    /\ pre.buffer[0] = 1
    /\ buffer[0] = 255
    /\ hist = <<1, 200, 100, 255>>

\* C15 (add_value frame): for N >= 1, add_value(v) sets the slot at the
\* pre-call index to v and leaves every other slot as it was; every value is
\* accepted and stored as given.
C15_AddValueFrame ==
    N >= 1 =>
        /\ last = "add_value" =>
              /\ panic = NoPanic
              /\ DOMAIN buffer = DOMAIN pre.buffer
              /\ buffer[pre.index] = hist[Len(hist)]
              /\ \A i \in DOMAIN buffer \ {pre.index} : buffer[i] = pre.buffer[i]
        /\ \A v \in Values :
              LET r == add_value(Self, v)
              IN  /\ r.panic = NoPanic
                  /\ r.self.buffer[index] = v
                  /\ \A i \in DOMAIN buffer \ {index} : r.self.buffer[i] = buffer[i]

C15_Witness ==
    /\ N = 3
    /\ last = "add_value"
    /\ pre.index = 1
    /\ pre.buffer[1] = 0
    /\ buffer[1] = 255
    /\ buffer[0] = 100
    /\ buffer[2] = 0
\* The values of a sequence.
ValuesOf(seq) == {seq[i] : i \in DOMAIN seq}

\* C16 (odd-count middle element): with count odd, median() returns the
\* element of rank count / 2 of the live samples in ascending order: one of the
\* live samples, with at most count / 2 of them strictly smaller and at most
\* count / 2 strictly larger.
C16_OddMiddle ==
    (N >= 1 /\ last = "median" /\ pre.count % 2 = 1) =>
        LET live == Window(hist, N)
            half == pre.count \div 2
        IN  /\ panic = NoPanic
            /\ Len(live) = pre.count
            /\ ret = KthSmallest(live, half)
            /\ ret \in ValuesOf(live)
            /\ Cardinality({i \in DOMAIN live : live[i] < ret}) <= half
            /\ Cardinality({i \in DOMAIN live : live[i] > ret}) <= half

C16_Witness ==
    /\ N = 3
    /\ last = "median"
    /\ count = 3
    /\ buffer[0] = 200
    /\ buffer[1] = 1
    /\ buffer[2] = 100
    /\ ret = 100

\* C17 (no stale slots): every slot at a position >= count holds the default
\* value.
C17_UnwrittenSlotsDefault ==
    \A i \in DOMAIN buffer : i >= count => buffer[i] = Default

C17_Witness ==
    /\ N = 2
    /\ last = "clear"
    /\ pre.count = 2
    /\ pre.buffer[1] = 255
    /\ count = 0
    /\ buffer[1] = Default

\* The smallest and the largest value of a non-empty sequence.
Smallest(seq) == CHOOSE x \in ValuesOf(seq) : \A y \in ValuesOf(seq) : x <= y
Largest(seq) == CHOOSE x \in ValuesOf(seq) : \A y \in ValuesOf(seq) : x >= y

\* C18 (median within the samples' range): with count >= 1, median() returns
\* a value between the smallest and the largest live sample.
C18_MedianWithinRange ==
    (N >= 1 /\ last = "median" /\ pre.count >= 1) =>
        LET live == Window(hist, N)
        IN  /\ panic = NoPanic
            /\ Smallest(live) <= ret
            /\ ret <= Largest(live)

\* C18, as far as the code goes: the same, whenever count is odd or the two
\* middle values add up within T's range.
C18_MedianWithinRangeInRange ==
    (N >= 1 /\ last = "median" /\ pre.count >= 1
       /\ (pre.count % 2 = 1 \/ MiddleSumInRange(Window(hist, N)))) =>
        LET live == Window(hist, N)
        IN  /\ panic = NoPanic
            /\ Smallest(live) <= ret
            /\ ret <= Largest(live)
(***************************************************************************)
(* median, step by step                                                    *)
(*                                                                         *)
(* One call of median() on a buffer that adds to a new buffer have built,  *)
(* followed through its loops: the early return and the copy (start), the  *)
(* outer loop header (outer), the inner loop (inner), the selection of the *)
(* middle (sorted), the return (returned).  The code runs on one thread    *)
(* and takes its next step whenever it has one.                            *)
(***************************************************************************)
\* The sequences of at most n values.
Histories(n) == UNION {[1 .. k -> Values] : k \in 0 .. n}

InnerEnd_NoMinusOne(cnt, i) == USub(cnt, i)

\* self.count - i - 1, the end of the inner range
InnerEnd(cnt, i) ==
    LET d1 == USub(cnt, i)
    IN  IF d1.panic = NoPanic THEN USub(d1.val, 1) ELSE d1

\* if sorted_buffer[j] > sorted_buffer[j + 1] { sorted_buffer.swap(j, j + 1) }
CompareSwap(sb, j) == IF sb[j] > sb[j + 1] THEN Swap(sb, j, j + 1) ELSE sb

SortInit ==
    /\ N \in 0 .. MaxN
    /\ overflow_checks \in BOOLEAN
    /\ hist \in Histories(Min(N, MaxAdds))
    /\ buffer = Replay(new(N), hist).buffer
    /\ index = Replay(new(N), hist).index
    /\ count = Replay(new(N), hist).count
    /\ last = IF hist = << >> THEN "new" ELSE "add_value"
    /\ ret = NoRet
    /\ panic = NoPanic
    /\ pre = IF hist = << >> THEN new(N)
             ELSE Replay(new(N), SubSeq(hist, 1, Len(hist) - 1))
    /\ pc = "start"
    /\ sorted_buffer = << >>
    /\ loop_i = 0
    /\ loop_j = 0
    /\ loop_end = 0

\* if self.count == 0 { return T::from(0); }  let mut sorted_buffer = self.buffer;
MedianStart ==
    /\ pc = "start"
    /\ IF count = 0
       THEN /\ pc' = "returned"
            /\ ret' = FromU8(0)
            /\ UNCHANGED <<sorted_buffer, loop_i>>
       ELSE /\ pc' = "outer"
            /\ sorted_buffer' = buffer
            /\ loop_i' = 0
            /\ ret' = ret
    /\ last' = "median"
    /\ pre' = Self
    /\ UNCHANGED <<N, overflow_checks, buffer, index, count, panic, hist, loop_j, loop_end>>

\* for i in 0..self.count { for j in 0..self.count - i - 1 {
OuterLoop ==
    /\ pc = "outer"
    /\ IF loop_i < count
       THEN LET e == InnerEnd(count, loop_i)
            IN  IF e.panic # NoPanic
                THEN /\ pc' = "loop_panicked"
                     /\ panic' = e.panic
                     /\ UNCHANGED <<loop_j, loop_end>>
                ELSE /\ pc' = "inner"
                     /\ loop_end' = e.val
                     /\ loop_j' = 0
                     /\ panic' = panic
       ELSE /\ pc' = "sorted"
            /\ UNCHANGED <<loop_j, loop_end, panic>>
    /\ UNCHANGED <<N, overflow_checks, buffer, index, count, last, ret, pre, hist,
                   sorted_buffer, loop_i>>

\* the body of the inner loop, and its end: the next i
InnerLoop ==
    /\ pc = "inner"
    /\ IF loop_j < loop_end
       THEN IF loop_j \notin DOMAIN sorted_buffer \/ (loop_j + 1) \notin DOMAIN sorted_buffer
            THEN /\ pc' = "loop_panicked"
                 /\ panic' = "index_out_of_bounds"
                 /\ UNCHANGED <<sorted_buffer, loop_i, loop_j>>
            ELSE /\ sorted_buffer' = CompareSwap(sorted_buffer, loop_j)
                 /\ loop_j' = loop_j + 1
                 /\ UNCHANGED <<pc, panic, loop_i>>
       ELSE /\ pc' = "outer"
            /\ loop_i' = loop_i + 1
            /\ UNCHANGED <<sorted_buffer, loop_j, panic>>
    /\ UNCHANGED <<N, overflow_checks, buffer, index, count, last, ret, pre, hist, loop_end>>

\* the median of the sorted copy
MedianFinish ==
    /\ pc = "sorted"
    /\ LET m == Middle([buf |-> sorted_buffer, panic |-> NoPanic], count)
       IN  /\ ret' = m.val
           /\ panic' = m.panic
    /\ pc' = "returned"
    /\ UNCHANGED <<N, overflow_checks, buffer, index, count, last, pre, hist,
                   sorted_buffer, loop_i, loop_j, loop_end>>

SortNext == MedianStart \/ OuterLoop \/ InnerLoop \/ MedianFinish

SortSpec == SortInit /\ [][SortNext]_vars /\ WF_vars(SortNext)
\* How many of the first cnt slots of buf hold x.
PrefixOccurrences(buf, cnt, x) ==
    Cardinality({k \in DOMAIN buf : k < cnt /\ buf[k] = x})

\* The loops of median() have run to their end.
SortPost ==
    /\ DOMAIN sorted_buffer = DOMAIN buffer
    /\ \A k \in 0 .. count - 2 : sorted_buffer[k] <= sorted_buffer[k + 1]
    /\ \A x \in Values :
          PrefixOccurrences(sorted_buffer, count, x) = PrefixOccurrences(buffer, count, x)
    /\ \A k \in DOMAIN buffer : k >= count => sorted_buffer[k] = buffer[k]

\* C19 (sort postcondition): when the nested swap loops of median() finish,
\* positions 0 .. count-1 of the copy are in ascending order and a permutation
\* of positions 0 .. count-1 of the buffer, positions >= count of the copy are
\* untouched, no step of the loops fails, and the loops, once entered, finish.
C19_SortPostcondition ==
    /\ [](pc = "sorted" => SortPost)
    /\ [](pc # "loop_panicked")
    /\ (pc = "outer") ~> (pc = "sorted")

C19_Witness ==
    /\ pc = "sorted"
    /\ N = 3
    /\ count = 3
    /\ buffer[0] > buffer[1]
    /\ buffer[1] > buffer[2]
    /\ sorted_buffer[0] < sorted_buffer[1]
    /\ sorted_buffer[1] < sorted_buffer[2]

\* The steps compute what the operators compute: the sorted copy is
\* BubbleSort's, and the call returns what median returns.
StepsAgreeWithMedian ==
    /\ pc = "sorted" => BubbleSort(buffer, count) = [buf |-> sorted_buffer, panic |-> NoPanic]
    /\ pc = "returned" => (ret = median(Self).val /\ panic = median(Self).panic)

====
